---- MODULE Spec2Model ----
(***************************************************************************)
(* The UltraStar generator (src/ultrastar.py, src/pitcher.py,              *)
(* src/main.py): process_song's passes over one song, from the transcribed *)
(* words to the header, the text of the note lines and the files, and the  *)
(* loop of main over the songs of a batch.                                 *)
(*                                                                         *)
(* Times are integers in milliseconds (a word of the transcription at      *)
(* 1.40 s is 1400), so that word_start * 1000 is the integer itself; every *)
(* quotient the code takes in floating point is taken here as the exact    *)
(* rational and rounded as Python's round() does, half to even.            *)
(***************************************************************************)
EXTENDS Integers, Sequences, FiniteSets, TLC

VARIABLES
    pc,                 \* position in process_song
    words,              \* song.words: <<[start, end, text]>>
    detected_bpm,       \* what detect_bpm returns for the mp3
    pitch_cache,        \* what _create_pitch_cache returns: second -> frequency
    pitch_file,         \* pitch_<id>.json of the cache folder: None, or its content
    bpm,                \* song.bpm
    gap,                \* song.gap
    pitchs,             \* song.pitchs
    lyrics,             \* song.lyrics
    lyrics_text,        \* what _lyrics_to_text returned: a sequence of characters
    i,                  \* index of the running loop (1-based)
    new_lyrics,         \* _end_of_phrase: new_lyrics
    current_phrase_end, \* _end_of_phrase: <<>> is None, <<b>> is the beat b
    phrase_word_count,  \* _end_of_phrase: phrase_word_count
    runs,               \* number of calls of _end_of_phrase so far
    origin,             \* history: for each entry of new_lyrics, what appended it
    error,              \* the exception process_song re-raises, "" if none
    language,           \* process_song: language once transcribe_audio returned
    info,               \* song.title, artist, album, genre, year, decade
    login,              \* os.getlogin(): <<name>>, or <<>> when it raises OSError
    ultrastar_header,   \* song.ultrastar_header: <<[tag, value]>>
    files,              \* the files of the song below the output folder, by type
    ultrastar_file,     \* what _create_ultrastar_file wrote: None, or header and notes
    songs_list,         \* main: the songs of songs.json
    song_at,            \* main: index of the song of the running iteration, 0 before
    removed,            \* main: indexes of the songs whose mp3 was removed
    results             \* history: what each returned process_song was given and made

vars == <<pc, words, detected_bpm, pitch_cache, pitch_file, bpm, gap, pitchs, lyrics,
          lyrics_text, i, new_lyrics, current_phrase_end, phrase_word_count, runs,
          origin, error, language, info, login, ultrastar_header, files,
          ultrastar_file, songs_list, song_at, removed, results>>

tags == <<language, info, login>>
output == <<ultrastar_header, files, ultrastar_file>>
batch == <<songs_list, song_at, removed, results>>

(***************************************************************************)
(* Configuration (src/config.py) and bounds of the model.                  *)
(***************************************************************************)
MAX_WORDS_PER_PHRASE == 7
GAP_THRESHOLD == 4
\* FRACTION = 0.25 = FRACTION_NUM / FRACTION_DEN
FRACTION_NUM == 1
FRACTION_DEN == 4

\* longest word list drawn
MaxWords == 8
\* how many words of a list may depart from the regular shape
MaxIrregular == 2

None == <<>>
Some(b) == <<b>>

Max(a, b) == IF a >= b THEN a ELSE b

(***************************************************************************)
(* Python's round() on the rational num/den (den > 0): nearest integer,    *)
(* a tie going to the even neighbour.                                      *)
(***************************************************************************)
round(num, den) ==
    LET q == num \div den
        r == num - q * den
    IN  IF 2 * r < den THEN q
        ELSE IF 2 * r > den THEN q + 1
        ELSE IF q % 2 = 0 THEN q ELSE q + 1

(***************************************************************************)
(* Data classes.                                                           *)
(***************************************************************************)
Lyric(note_type, start_beat, length, pitch, text) ==
    [note_type |-> note_type, start_beat |-> start_beat, length |-> length,
     pitch |-> pitch, text |-> text]

IsSung(line) == line.note_type = ":" \/ line.note_type = "*"

(***************************************************************************)
(* Beat quantizer.  ms_per_beat = 60000 / (bpm * 4) divides by zero when   *)
(* bpm is 0; otherwise a time t (ms) falls on beat                         *)
(* (t - gap) / ms_per_beat = (t - gap) * (bpm * 4) / 60000, rounded.       *)
(***************************************************************************)
ZeroDivisionError == [raised |-> TRUE, start_beat |-> 0, length |-> 0]

BeatTruncated(t, gap_ms, display_bpm) ==
    ((t - gap_ms) * (display_bpm * 4)) \div 60000

BeatFromGap(t, gap_ms, display_bpm) == round((gap_ms - t) * (display_bpm * 4), 60000)

Beat(t, gap_ms, display_bpm) == round((t - gap_ms) * (display_bpm * 4), 60000)

_calculate_start_and_length(word_start, word_end, gap_ms, display_bpm) ==
    IF display_bpm * 4 = 0 THEN ZeroDivisionError
    ELSE LET start_beat == Beat(word_start, gap_ms, display_bpm)
             end_beat == Beat(word_end, gap_ms, display_bpm)
         IN  [raised |-> FALSE, start_beat |-> start_beat,
              length |-> Max(end_beat - start_beat, 1)]

_get_bpm(detected) == detected * 4

\* the gap, were it taken from the last word
GapOfLastWord(ws) == IF Len(ws) > 0 THEN round(ws[Len(ws)].start, 1) ELSE 0

\* int(round(song.words[0][0] * 1000)); the start is held in ms
_get_gap(ws) == IF Len(ws) > 0 THEN round(ws[1].start, 1) ELSE 0

(***************************************************************************)
(* Pitch.  A frequency f > 0 is held as Some(c), c its distance from C4     *)
(* (261.63 Hz) in cents, 1200 * log2(f / 261.63), so that the semitones     *)
(* 12 * log2(f / 261.63) are c / 100; a frequency f <= 0 is held as None.   *)
(* process_pitch gives one entry per word: the word's own start and end    *)
(* and the pitch of the second int(word_start) in the pitch cache (that of *)
(* frequency 0.0 when the cache has no such second).  _get_pitch returns   *)
(* the pitch of the first entry whose [start, end) holds the word's start, *)
(* else 0.                                                                 *)
(***************************************************************************)
Min(a, b) == IF a <= b THEN a ELSE b

_convert_frequency_to_ultrastar(frequency) ==
    IF frequency = None THEN 0
    ELSE LET ultrastar_pitch == round(frequency[1], 100)
         IN  Max(-60, Min(ultrastar_pitch, 67))

_map_words_to_pitch(ws, cache) ==
    [k \in 1..Len(ws) |->
        LET second == ws[k].start \div 1000
            frequency == IF second \in DOMAIN cache THEN cache[second] ELSE None
        IN  [start |-> ws[k].start, end |-> ws[k].end,
             pitch |-> _convert_frequency_to_ultrastar(frequency)]]

PitchOfLastEntry(word_start, table) ==
    LET hits == {k \in 1..Len(table) :
                    table[k].start <= word_start /\ word_start < table[k].end}
    IN  IF hits = {} THEN (IF table = <<>> THEN 0 ELSE table[Len(table)].pitch)
        ELSE table[CHOOSE k \in hits : \A m \in hits : k <= m].pitch

_get_pitch(word_start, table) ==
    LET hits == {k \in 1..Len(table) :
                    table[k].start <= word_start /\ word_start < table[k].end}
    IN  IF hits = {} THEN 0
        ELSE table[CHOOSE k \in hits : \A m \in hits : k <= m].pitch

(***************************************************************************)
(* Note classifier.  A draw of random.random() is DrawNum / DRAW_DEN in    *)
(* [0, 1).  total_notes * 0.10 is compared in tenths.                      *)
(***************************************************************************)
DRAW_DEN == 1000
Draws == {0, DRAW_DEN - 1}

InOpeningCountingThisNote(processed_count, total_notes) ==
    10 * (processed_count + 1) < total_notes

\* line 917: processed_count < total_notes * 0.10
InOpening(processed_count, total_notes) == 10 * processed_count < total_notes

LastFourGolden(processed_notes) ==
    /\ Len(processed_notes) >= 4
    /\ \A k \in (Len(processed_notes) - 3)..Len(processed_notes) :
           processed_notes[k].note_type = "*"

\* line 921
LastThreeGolden(processed_notes) ==
    /\ Len(processed_notes) >= 3
    /\ \A k \in (Len(processed_notes) - 2)..Len(processed_notes) :
           processed_notes[k].note_type = "*"

RemainingNotesOfSong(total_notes, processed_count) == total_notes

\* line 925
RemainingNotes(total_notes, processed_count) == total_notes - processed_count

NoNoteRemainsAfterThisOne(remaining_notes) == remaining_notes <= 1

\* line 927
NoNoteRemains(remaining_notes) == remaining_notes <= 0

NeededTenthsOfTwentyPercent(total_notes, golden_count) ==
    2 * total_notes - 10 * golden_count

\* lines 912-913, 931: needed_golden = total_notes * 0.10 - golden_count, in tenths
NeededTenths(total_notes, golden_count) == total_notes - 10 * golden_count

_get_note_type(total_notes, lyr, draw) ==
    LET processed_notes == SelectSeq(lyr, IsSung)
        processed_count == Len(processed_notes)
        golden_count == Cardinality({k \in 1..processed_count :
                                        processed_notes[k].note_type = "*"})
        remaining_notes == RemainingNotes(total_notes, processed_count)
        needed_tenths == NeededTenths(total_notes, golden_count)
    IN  IF InOpening(processed_count, total_notes) THEN ":"
        ELSE IF LastThreeGolden(processed_notes) THEN ":"
        ELSE IF NoNoteRemains(remaining_notes) THEN ":"
        ELSE IF needed_tenths <= 0 THEN ":"
        \* draw / DRAW_DEN < needed_golden / remaining_notes
        ELSE IF draw * 10 * remaining_notes < needed_tenths * DRAW_DEN THEN "*"
        ELSE ":"

(***************************************************************************)
(* Texts are sequences of characters.                                      *)
(***************************************************************************)
\* (the en dash and the em dash of the source list occur in no text drawn here)
list_of_punctuation ==
    {".", ",", ";", ":", "!", "?", "\"", "(", ")", "[", "]", "{", "}", "-", "_"}

IsLetter(char) == char \notin list_of_punctuation

_remove_punctuation(text) == SelectSeq(text, IsLetter)

_word_to_lyric(word, total_notes, lyr, gap_ms, display_bpm, table, draw) ==
    LET note_type == _get_note_type(total_notes, lyr, draw)
        q == _calculate_start_and_length(word.start, word.end, gap_ms, display_bpm)
    IN  Lyric(note_type, q.start_beat, q.length,
              _get_pitch(word.start, table), _remove_punctuation(word.text))

(***************************************************************************)
(* Phrase segmenter: the pieces of one iteration of _end_of_phrase's loop. *)
(***************************************************************************)
Marker(marker_start) == Lyric("-", marker_start, 0, 0, <<>>)

PhraseEndAtLastNote(cpe, line) == Some(line.start_beat + line.length)

\* lines 798-805: the phrase ends at the latest note end seen
PhraseEndAfter(cpe, line) ==
    LET note_end == line.start_beat + line.length
    IN  IF cpe = None \/ note_end > cpe[1] THEN Some(note_end) ELSE cpe

MaxWordCountExceeded(count) == count > MAX_WORDS_PER_PHRASE

\* line 813
MaxWordCountReached(count) == count >= MAX_WORDS_PER_PHRASE

PhraseEndKept(cpe) == cpe

\* line 820
PhraseEndAfterMaxWords(cpe) == None

\* line 831
GapTo(next_line, cpe) == IF cpe # None THEN next_line.start_beat - cpe[1] ELSE 0

GapExceeded(g) == g > GAP_THRESHOLD

\* line 834
GapReached(g) == g >= GAP_THRESHOLD

\* the marker start, were a tie rounded upwards
GapMarkerStartHalfUp(cpe, g) ==
    cpe[1] + ((2 * g * FRACTION_NUM + FRACTION_DEN) \div (2 * FRACTION_DEN))

\* line 835: current_phrase_end + int(round(gap * Decimal(FRACTION)))
GapMarkerStart(cpe, g) == cpe[1] + round(g * FRACTION_NUM, FRACTION_DEN)

CountKept(count) == count

\* line 848
CountAfterNonNote(count) == 0

(***************************************************************************)
(* The state of the loop after the iteration on lyr[k], as a record.       *)
(***************************************************************************)
EndOfPhraseIteration(lyr, k, nl, org, cpe, count) ==
    LET line == lyr[k]
    IN  IF IsSung(line)
        THEN LET cpe1 == PhraseEndAfter(cpe, line)
                 count1 == count + 1
                 a == MaxWordCountReached(count1)
                 nl2 == IF a THEN Append(Append(nl, line), Marker(cpe1[1]))
                        ELSE Append(nl, line)
                 org2 == IF a THEN Append(Append(org, "in"), "A")
                         ELSE Append(org, "in")
                 cpe2 == IF a THEN PhraseEndAfterMaxWords(cpe1) ELSE cpe1
                 count2 == IF a THEN 0 ELSE count1
                 b == /\ k < Len(lyr)
                      /\ IsSung(lyr[k + 1])
                      /\ GapReached(GapTo(lyr[k + 1], cpe2))
             IN  IF b
                 THEN [new_lyrics |-> Append(nl2,
                           Marker(GapMarkerStart(cpe2, GapTo(lyr[k + 1], cpe2)))),
                       origin |-> Append(org2, "B"),
                       current_phrase_end |-> None,
                       phrase_word_count |-> 0]
                 ELSE [new_lyrics |-> nl2, origin |-> org2,
                       current_phrase_end |-> cpe2,
                       phrase_word_count |-> count2]
        ELSE [new_lyrics |-> Append(nl, line), origin |-> Append(org, "in"),
              current_phrase_end |-> None,
              phrase_word_count |-> CountAfterNonNote(count)]

ShortLyricFixedWhateverItsType(lyric) ==
    IF lyric.length < 1 THEN [lyric EXCEPT !.length = 1] ELSE lyric

\* lines 869-872
ShortLyricFixed(lyric) ==
    IF lyric.length < 1 /\ lyric.note_type # "-"
    THEN [lyric EXCEPT !.length = 1] ELSE lyric

(***************************************************************************)
(* Serializer.  The text is a sequence of characters, "\n" ending each     *)
(* line; an integer is written as Python's str() writes it.                *)
(***************************************************************************)
Digit(d) == <<"0", "1", "2", "3", "4", "5", "6", "7", "8", "9">>[d + 1]

RECURSIVE DecimalDigits(_)
DecimalDigits(n) ==
    IF n < 10 THEN <<Digit(n)>>
    ELSE DecimalDigits(n \div 10) \o <<Digit(n % 10)>>

StrWithoutSign(n) == IF n < 0 THEN DecimalDigits(0 - n) ELSE DecimalDigits(n)

\* lines 769, 771: an int field inside the f-string
str(n) == IF n < 0 THEN <<"-">> \o DecimalDigits(0 - n) ELSE DecimalDigits(n)

\* line 769
MarkerLine(lyric) == <<lyric.note_type, " ">> \o str(lyric.start_beat) \o <<"\n">>

SungLineWithOneSpace(lyric) ==
    <<lyric.note_type, " ">> \o str(lyric.start_beat) \o <<" ">>
        \o str(lyric.length) \o <<" ">> \o str(lyric.pitch) \o <<" ">>
        \o lyric.text \o <<"\n">>

\* line 771
SungLine(lyric) ==
    <<lyric.note_type, " ">> \o str(lyric.start_beat) \o <<" ">>
        \o str(lyric.length) \o <<" ">> \o str(lyric.pitch) \o <<" ", " ">>
        \o lyric.text \o <<"\n">>

RECURSIVE LinesOf(_)
LinesOf(lyr) ==
    IF lyr = <<>> THEN <<>>
    ELSE (IF Head(lyr).note_type = "-" THEN MarkerLine(Head(lyr))
          ELSE SungLine(Head(lyr))) \o LinesOf(Tail(lyr))

_lyrics_to_text(lyr) == LinesOf(lyr) \o <<"E", "\n">>

(***************************************************************************)
(* Inputs.  A word list is given by the shape of each word: how long after *)
(* the start of the word before it starts (after 0 for the first), and how *)
(* long it lasts.  With detected_bpm 125 a beat is 30 ms.                  *)
(***************************************************************************)
Regular == [delta |-> 60, dur |-> 30, text |-> <<"l", "a", ",">>]

Irregular ==
    { [delta |-> 150, dur |-> 30, text |-> <<"o", "h">>],    \* 4 beats of silence
      [delta |-> 330, dur |-> 30, text |-> <<"o", "h">>],    \* 10 beats of silence
      [delta |-> 60, dur |-> 210, text |-> <<"o", "h">>] }   \* outlasts what follows

RECURSIVE StartOf(_, _)
StartOf(shapes, k) == IF k = 0 THEN 0 ELSE StartOf(shapes, k - 1) + shapes[k].delta

WordsOf(shapes) ==
    [k \in 1..Len(shapes) |->
        [start |-> StartOf(shapes, k),
         end |-> StartOf(shapes, k) + shapes[k].dur,
         text |-> shapes[k].text]]

ShapeLists ==
    UNION { UNION { { [k \in 1..n |-> IF k \in P THEN f[k] ELSE Regular] :
                        f \in [P -> Irregular] } :
                    P \in {Q \in SUBSET (1..n) : Cardinality(Q) <= MaxIrregular} } :
            n \in 0..MaxWords }

WordLists == { WordsOf(shapes) : shapes \in ShapeLists }

DetectedBpms == {0, 125}

\* second 0 of the audio is pitched, the later ones are not in the cache
PitchCaches == { [second \in 0..0 |-> Some(500)] }

(***************************************************************************)
(* The header (src/ultrastar.py lines 379-458).  A header line "#TAG:value"*)
(* is held as the record of its tag and its value, the value a sequence of *)
(* characters like every text of the model, <<>> being the empty string    *)
(* and None alike: both are false in "if song.album:".                     *)
(***************************************************************************)
Header(tag, value) == [tag |-> tag, value |-> value]

uppercase == <<"A", "B", "C", "D", "E", "F", "G", "H", "I", "J", "K", "L", "M",
               "N", "O", "P", "Q", "R", "S", "T", "U", "V", "W", "X", "Y", "Z">>

lowercase == <<"a", "b", "c", "d", "e", "f", "g", "h", "i", "j", "k", "l", "m",
               "n", "o", "p", "q", "r", "s", "t", "u", "v", "w", "x", "y", "z">>

\* str.lower()
lower(text) ==
    [k \in 1..Len(text) |->
        IF \E n \in 1..Len(uppercase) : uppercase[n] = text[k]
        THEN lowercase[CHOOSE n \in 1..Len(uppercase) : uppercase[n] = text[k]]
        ELSE text[k]]

list_of_languages ==
    { [key |-> <<"e", "n">>, value |-> <<"e", "n", "g", "l", "i", "s", "h">>],
      [key |-> <<"f", "r">>, value |-> <<"f", "r", "e", "n", "c", "h">>],
      [key |-> <<"e", "s">>, value |-> <<"s", "p", "a", "n", "i", "s", "h">>],
      [key |-> <<"d", "e">>, value |-> <<"g", "e", "r", "m", "a", "n">>],
      [key |-> <<"i", "t">>, value |-> <<"i", "t", "a", "l", "i", "a", "n">>] }

\* the key as it is looked up
LanguageKeyAsGiven(lang) == lang

LanguageKey(lang) == lower(lang)

\* raised: the ValueError of line 458
_convert_language_to_code(lang) ==
    LET found == { entry \in list_of_languages : entry.key = LanguageKey(lang) }
    IN  IF found = {}
        THEN [raised |-> TRUE, code |-> <<>>]
        ELSE [raised |-> FALSE, code |-> (CHOOSE entry \in found : TRUE).value]

_add_mandatory_headers(header, song_info, song_bpm) ==
    header \o <<Header("#TITLE", song_info.title),
                Header("#ARTIST", song_info.artist),
                Header("#BPM", str(song_bpm))>>

\* "if song.album: song.ultrastar_header.append(...)", after the same without
\* the condition
TagAppendedAlways(header, tag, value) == Append(header, Header(tag, value))

TagAppended(header, tag, value) ==
    IF value # <<>> THEN Append(header, Header(tag, value)) ELSE header

DefaultCreator ==
    <<"U", "l", "t", "r", "a", "s", "t", "a", "r", " ",
      "G", "e", "n", "e", "r", "a", "t", "o", "r">>

\* raised: "" when the function returns, else the exception that leaves it;
\* header: the list as the function, or the exception, leaves it
_add_optional_headers(header, song_gap, user, song_info, song_language) ==
    LET with_gap == Append(header, Header("#GAP", str(song_gap)))
        with_creator ==
            Append(with_gap,
                   Header("#CREATOR", IF user[1] # <<>> THEN user[1] ELSE DefaultCreator))
        with_album == TagAppended(with_creator, "#ALBUM", song_info.album)
        with_genre == TagAppended(with_album, "#GENRE", song_info.genre)
        with_year == TagAppended(with_genre, "#YEAR", song_info.year)
        with_decade == TagAppended(with_year, "#DECADE", song_info.decade)
        converted == _convert_language_to_code(song_language)
    IN  IF user = None
        THEN [raised |-> "OSError", header |-> with_gap]
        ELSE IF song_language = <<>>
        THEN [raised |-> "", header |-> with_decade]
        ELSE IF converted.raised
        THEN [raised |-> "ValueError", header |-> with_decade]
        ELSE [raised |-> "",
              header |-> Append(with_decade, Header("#LANGUAGE", converted.code))]

(***************************************************************************)
(* The files of a song (src/ultrastar.py lines 316-365 and 538-649) under  *)
(* the configuration src/config.py gives when the environment sets         *)
(* nothing.                                                                *)
(***************************************************************************)
SPLEETER == FALSE
debug == FALSE

\* the file types _create_files leaves in the output folder, in the order of
\* creation_functions; the work-in-progress image is removed again unless debug
CreatedFiles ==
    (IF debug THEN <<"WIP_IMG">> ELSE <<>>)
        \o <<"MP3">>
        \o (IF SPLEETER THEN <<"VOCALS", "INSTRUMENTAL">> ELSE <<>>)
        \o <<"COVER", "BACKGROUND">>

\* file_info.file_name without the unique id
FileName(file_type) ==
    CASE file_type = "MP3" -> <<".", "m", "p", "3">>
      [] file_type = "VOCALS" -> <<" ", "[", "V", "O", "C", "]", ".", "m", "p", "3">>
      [] file_type = "INSTRUMENTAL" ->
            <<" ", "[", "I", "N", "S", "T", "R", "]", ".", "m", "p", "3">>
      [] file_type = "COVER" -> <<" ", "[", "C", "O", "]", ".", "j", "p", "g">>
      [] file_type = "BACKGROUND" -> <<" ", "[", "B", "G", "]", ".", "j", "p", "g">>

\* the header lines the creation functions append
CreatedHeaders ==
    <<Header("#MP3", FileName("MP3")), Header("#AUDIO", FileName("MP3"))>>
        \o (IF SPLEETER
            THEN <<Header("#VOCALS", FileName("VOCALS")),
                   Header("#INSTRUMENTAL", FileName("INSTRUMENTAL"))>>
            ELSE <<>>)
        \o <<Header("#COVER", FileName("COVER")),
             Header("#BACKGROUND", FileName("BACKGROUND"))>>

DefaultInfo ==
    [title |-> <<"T">>, artist |-> <<"A">>, album |-> <<"L">>, genre |-> <<>>,
     year |-> <<"1", "9", "9", "9">>, decade |-> <<>>]

\* one song in single mp3 mode, as Song.__init__ leaves it
SingleSong ==
    /\ language = <<"e", "n">>
    /\ info = DefaultInfo
    /\ login = Some(<<"c", "l", "e", "m">>)
    /\ ultrastar_header = <<>>
    /\ files = {}
    /\ ultrastar_file = None
    /\ songs_list = <<>>
    /\ song_at = 0
    /\ removed = {}
    /\ results = <<>>

(***************************************************************************)
(* process_song, from the return of transcribe_audio on.                   *)
(***************************************************************************)
Init ==
    /\ pc = "transcribed"
    /\ words \in WordLists
    /\ detected_bpm \in DetectedBpms
    /\ pitch_cache \in PitchCaches
    /\ pitch_file = None
    /\ bpm = 0
    /\ gap = 0
    /\ pitchs = <<>>
    /\ lyrics = <<>>
    /\ lyrics_text = <<>>
    /\ i = 0
    /\ new_lyrics = <<>>
    /\ current_phrase_end = None
    /\ phrase_word_count = 0
    /\ runs = 0
    /\ origin = <<>>
    /\ error = ""
    /\ SingleSong

Raise(exception) ==
    /\ pc' = "failed"
    /\ error' = exception

\* "if not words:", after a test that lets every word list through
AnyWordsPass(ws) == FALSE

NoWordsTranscribed(ws) == ws = <<>>

\* lines 262-266
CheckWords ==
    /\ pc = "transcribed"
    /\ IF NoWordsTranscribed(words)
       THEN Raise("ValueError")
       ELSE pc' = "create_files" /\ UNCHANGED error
    /\ UNCHANGED <<tags, output, batch>>
    /\ UNCHANGED <<words, detected_bpm, pitch_cache, pitch_file,
                   lyrics_text, bpm, gap, pitchs, lyrics, i,
                   new_lyrics, current_phrase_end, phrase_word_count, runs, origin>>

\* line 268: the creation functions in turn, each copying its file and
\* appending its header lines
_create_files ==
    /\ pc = "create_files"
    /\ files' = files \cup { CreatedFiles[k] : k \in 1..Len(CreatedFiles) }
    /\ ultrastar_header' = ultrastar_header \o CreatedHeaders
    /\ pc' = "music_info"
    /\ UNCHANGED <<tags, ultrastar_file, batch>>
    /\ UNCHANGED <<words, detected_bpm, pitch_cache, pitch_file,
                   lyrics_text, bpm, gap, pitchs, lyrics, i, new_lyrics,
                   current_phrase_end, phrase_word_count, runs, origin, error>>

\* lines 386-392; an exception of _add_optional_headers leaves process_song
_update_with_music_info ==
    /\ pc = "music_info"
    /\ bpm' = _get_bpm(detected_bpm)
    /\ gap' = _get_gap(words)
    /\ LET mandatory ==
               _add_mandatory_headers(ultrastar_header, info, _get_bpm(detected_bpm))
           optional ==
               _add_optional_headers(mandatory, _get_gap(words), login, info, language)
       IN  /\ ultrastar_header' = optional.header
           /\ IF optional.raised # ""
              THEN Raise(optional.raised)
              ELSE pc' = "process_pitch" /\ UNCHANGED error
    /\ UNCHANGED <<tags, files, ultrastar_file, batch>>
    /\ UNCHANGED <<words, detected_bpm, pitch_cache, pitch_file,
                   lyrics_text, pitchs, lyrics, i, new_lyrics,
                   current_phrase_end, phrase_word_count, runs, origin>>

\* line 271 and src/pitcher.py lines 179-195: the mapping of pitch_<id>.json when
\* the file is there, else the mapping computed from the pitch cache, which is
\* also written to the file
process_pitch ==
    /\ pc = "process_pitch"
    /\ IF pitch_file # None
       THEN /\ pitchs' = pitch_file[1]
            /\ UNCHANGED pitch_file
       ELSE /\ pitchs' = _map_words_to_pitch(words, pitch_cache)
            /\ pitch_file' = Some(_map_words_to_pitch(words, pitch_cache))
    /\ pc' = "words_to_lyrics"
    /\ UNCHANGED <<tags, output, batch>>
    /\ UNCHANGED <<words, detected_bpm, pitch_cache, lyrics_text, bpm, gap, lyrics, i,
                   new_lyrics, current_phrase_end, phrase_word_count, runs, origin,
                   error>>

\* line 733
WordsToLyricsBegin ==
    /\ pc = "words_to_lyrics"
    /\ lyrics' = <<>>
    /\ i' = 1
    /\ pc' = "words_loop"
    /\ UNCHANGED <<tags, output, batch>>
    /\ UNCHANGED <<words, detected_bpm, pitch_cache, pitch_file,
                   lyrics_text, bpm, gap, pitchs, new_lyrics,
                   current_phrase_end, phrase_word_count, runs, origin, error>>

\* the loop body, were a word that _remove_punctuation leaves no text of
\* passed over
WordsToLyricsStepSkippingEmpty(D) ==
    /\ pc = "words_loop"
    /\ i <= Len(words)
    /\ \E draw \in D :
        IF _calculate_start_and_length(words[i].start, words[i].end, gap, bpm).raised
        THEN /\ Raise("ZeroDivisionError")
             /\ UNCHANGED <<lyrics, i>>
        ELSE /\ lyrics' = IF _remove_punctuation(words[i].text) = <<>> THEN lyrics
                          ELSE Append(lyrics,
                    _word_to_lyric(words[i], Len(words), lyrics, gap, bpm, pitchs, draw))
             /\ i' = i + 1
             /\ UNCHANGED <<pc, error>>
    /\ UNCHANGED <<tags, output, batch>>
    /\ UNCHANGED <<words, detected_bpm, pitch_cache, pitch_file,
                   lyrics_text, bpm, gap, pitchs, new_lyrics,
                   current_phrase_end, phrase_word_count, runs, origin>>

\* lines 734-739: one word, random.random() returning a draw of D; the division
\* by zero leaves process_song
WordsToLyricsStepDrawing(D) ==
    /\ pc = "words_loop"
    /\ i <= Len(words)
    /\ \E draw \in D :
        IF _calculate_start_and_length(words[i].start, words[i].end, gap, bpm).raised
        THEN /\ Raise("ZeroDivisionError")
             /\ UNCHANGED <<lyrics, i>>
        ELSE /\ lyrics' = Append(lyrics,
                    _word_to_lyric(words[i], Len(words), lyrics, gap, bpm, pitchs, draw))
             /\ i' = i + 1
             /\ UNCHANGED <<pc, error>>
    /\ UNCHANGED <<tags, output, batch>>
    /\ UNCHANGED <<words, detected_bpm, pitch_cache, pitch_file,
                   lyrics_text, bpm, gap, pitchs, new_lyrics,
                   current_phrase_end, phrase_word_count, runs, origin>>

WordsToLyricsStep == WordsToLyricsStepDrawing(Draws)

\* line 742
WordsToLyricsReturn ==
    /\ pc = "words_loop"
    /\ i > Len(words)
    /\ pc' = "end_of_phrase"
    /\ UNCHANGED <<tags, output, batch>>
    /\ UNCHANGED <<words, detected_bpm, pitch_cache, pitch_file,
                   lyrics_text, bpm, gap, pitchs, lyrics, i,
                   new_lyrics, current_phrase_end, phrase_word_count, runs, origin,
                   error>>

\* lines 780-785
EndOfPhraseCall(at) ==
    /\ pc = at
    /\ new_lyrics' = <<>>
    /\ origin' = <<>>
    /\ current_phrase_end' = None
    /\ phrase_word_count' = 0
    /\ i' = 1
    /\ runs' = runs + 1
    /\ pc' = "phrase_loop"
    /\ UNCHANGED <<tags, output, batch>>
    /\ UNCHANGED <<words, detected_bpm, pitch_cache, pitch_file,
                   lyrics_text, bpm, gap, pitchs, lyrics, error>>

EndOfPhraseBegin == EndOfPhraseCall("end_of_phrase")

\* lines 788-848: one iteration
EndOfPhraseStep ==
    /\ pc = "phrase_loop"
    /\ i <= Len(lyrics)
    /\ LET after == EndOfPhraseIteration(lyrics, i, new_lyrics, origin,
                                         current_phrase_end, phrase_word_count)
       IN  /\ new_lyrics' = after.new_lyrics
           /\ origin' = after.origin
           /\ current_phrase_end' = after.current_phrase_end
           /\ phrase_word_count' = after.phrase_word_count
    /\ i' = i + 1
    /\ UNCHANGED <<tags, output, batch>>
    /\ UNCHANGED <<pc, words, detected_bpm, pitch_cache, pitch_file,
                   lyrics_text, bpm, gap, pitchs, lyrics,
                   runs, error>>

\* lines 851-853
EndOfPhraseReturn ==
    /\ pc = "phrase_loop"
    /\ i > Len(lyrics)
    /\ lyrics' = new_lyrics
    /\ pc' = "update_short_lyrics"
    /\ UNCHANGED <<tags, output, batch>>
    /\ UNCHANGED <<words, detected_bpm, pitch_cache, pitch_file,
                   lyrics_text, bpm, gap, pitchs, i, new_lyrics,
                   current_phrase_end, phrase_word_count, runs, origin, error>>

\* lines 869-873
_update_short_lyrics ==
    /\ pc = "update_short_lyrics"
    /\ lyrics' = [k \in 1..Len(lyrics) |-> ShortLyricFixed(lyrics[k])]
    /\ pc' = "lyrics_to_text"
    /\ UNCHANGED <<tags, output, batch>>
    /\ UNCHANGED <<words, detected_bpm, pitch_cache, pitch_file,
                   lyrics_text, bpm, gap, pitchs, i, new_lyrics,
                   current_phrase_end, phrase_word_count, runs, origin, error>>

\* line 278
LyricsToText ==
    /\ pc = "lyrics_to_text"
    /\ lyrics_text' = _lyrics_to_text(lyrics)
    /\ pc' = "create_ultrastar_file"
    /\ UNCHANGED <<tags, output, batch>>
    /\ UNCHANGED <<words, detected_bpm, pitch_cache, pitch_file, bpm, gap, pitchs,
                   lyrics, i, new_lyrics, current_phrase_end, phrase_word_count, runs,
                   origin, error>>

\* line 280
_create_ultrastar_file ==
    /\ pc = "create_ultrastar_file"
    /\ ultrastar_file' = Some([header |-> ultrastar_header, lyrics |-> lyrics_text])
    /\ files' = files \cup {"TXT"}
    /\ pc' = "make_archive"
    /\ UNCHANGED <<tags, ultrastar_header, batch>>
    /\ UNCHANGED <<words, detected_bpm, pitch_cache, pitch_file,
                   lyrics_text, bpm, gap, pitchs, lyrics, i, new_lyrics,
                   current_phrase_end, phrase_word_count, runs, origin, error>>

\* lines 284-304: the zip beside the output folder, and the folder removed
\* unless debug
make_archive ==
    /\ pc = "make_archive"
    /\ files' = IF debug THEN files \cup {"ZIP"} ELSE {"ZIP"}
    /\ pc' = "done"
    /\ UNCHANGED <<tags, ultrastar_header, ultrastar_file, batch>>
    /\ UNCHANGED <<words, detected_bpm, pitch_cache, pitch_file,
                   lyrics_text, bpm, gap, pitchs, lyrics, i, new_lyrics,
                   current_phrase_end, phrase_word_count, runs, origin, error>>

Next ==
    \/ CheckWords
    \/ _create_files
    \/ _update_with_music_info
    \/ process_pitch
    \/ WordsToLyricsBegin
    \/ WordsToLyricsStep
    \/ WordsToLyricsReturn
    \/ EndOfPhraseBegin
    \/ EndOfPhraseStep
    \/ EndOfPhraseReturn
    \/ _update_short_lyrics
    \/ LyricsToText
    \/ _create_ultrastar_file
    \/ make_archive

Spec == Init /\ [][Next]_vars

(***************************************************************************)
(* process_song on a song of up to MaxHeaderWords words, under every       *)
(* combination of the optional values being there or not, a language that  *)
(* is missing, of the vocabulary in either case, or unknown, and a login   *)
(* name that is there, empty, or not to be had.                            *)
(***************************************************************************)
MaxHeaderWords == 1

HeaderInfos ==
    { [title |-> <<"T">>, artist |-> <<"A">>, album |-> album, genre |-> genre,
       year |-> year, decade |-> decade] :
        album \in {<<>>, <<"L">>}, genre \in {<<>>, <<"p", "o", "p">>},
        year \in {<<>>, <<"1", "9", "9", "9">>},
        decade \in {<<>>, <<"1", "9", "9", "0">>} }

HeaderLanguages ==
    {<<>>, <<"e", "n">>, <<"E", "N">>, <<"F", "r">>, <<"i", "t">>, <<"j", "a">>,
     <<"e", "n", "g">>}

Logins == {Some(<<"c", "l", "e", "m">>), Some(<<>>), None}

InitHeader ==
    /\ pc = "transcribed"
    /\ words \in { WordsOf([k \in 1..n |-> Regular]) : n \in 0..MaxHeaderWords }
    /\ detected_bpm \in DetectedBpms
    /\ pitch_cache \in PitchCaches
    /\ pitch_file = None
    /\ bpm = 0
    /\ gap = 0
    /\ pitchs = <<>>
    /\ lyrics = <<>>
    /\ lyrics_text = <<>>
    /\ i = 0
    /\ new_lyrics = <<>>
    /\ current_phrase_end = None
    /\ phrase_word_count = 0
    /\ runs = 0
    /\ origin = <<>>
    /\ error = ""
    /\ language \in HeaderLanguages
    /\ info \in HeaderInfos
    /\ login \in Logins
    /\ ultrastar_header = <<>>
    /\ files = {}
    /\ ultrastar_file = None
    /\ songs_list = <<>>
    /\ song_at = 0
    /\ removed = {}
    /\ results = <<>>

SpecHeader == InitHeader /\ [][Next]_vars

(***************************************************************************)
(* Batch mode of main (src/main.py lines 27-55): up to MaxBatch songs of   *)
(* songs.json, processed in turn.  An entry of the list holds what the     *)
(* file gives (artist and title there or not, the language, the mp3 there  *)
(* or not) and what the song's mp3 makes the tools return: the words and   *)
(* the language of transcribe_audio, the bpm, the pitch cache, and for     *)
(* each word the number random.random() returns when that word asks for    *)
(* one.  The entries are different songs: each has its own unique id, and  *)
(* so its own files in the cache folder.                                   *)
(***************************************************************************)
MaxBatch == 3

BatchSong(named, isfile, lang, detected, shapes, bpm_of_mp3, frequency, draws) ==
    [named |-> named, isfile |-> isfile, language |-> lang,
     detected_language |-> detected, words |-> WordsOf(shapes),
     detected_bpm |-> bpm_of_mp3,
     pitch_cache |-> [second \in 0..0 |-> Some(frequency)], draws |-> draws]

BatchSongs ==
    { BatchSong(TRUE, TRUE, <<>>, <<"e", "n">>, <<Regular, Regular>>, 125, 500, <<0, 0>>),
      BatchSong(TRUE, TRUE, <<>>, <<"e", "n">>, <<Regular, Regular>>, 125, 500,
                <<0, DRAW_DEN - 1>>),
      BatchSong(TRUE, TRUE, <<"F", "R">>, <<"f", "r">>,
                <<Regular, [delta |-> 330, dur |-> 30, text |-> <<"o", "h">>], Regular>>,
                125, 450, <<0, 0, 0>>),
      BatchSong(TRUE, TRUE, <<>>, <<>>, <<>>, 125, 500, <<>>),
      BatchSong(TRUE, TRUE, <<>>, <<"j", "a">>, <<Regular>>, 125, 500, <<0>>),
      BatchSong(TRUE, FALSE, <<>>, <<"e", "n">>, <<Regular>>, 125, 500, <<0>>),
      BatchSong(FALSE, TRUE, <<>>, <<"e", "n">>, <<Regular>>, 125, 500, <<0>>) }

InitBatch ==
    /\ pc = "main_loop"
    /\ songs_list \in UNION { [1..n -> BatchSongs] : n \in 1..MaxBatch }
    /\ song_at = 0
    /\ removed = {}
    /\ results = <<>>
    /\ words = <<>>
    /\ detected_bpm = 0
    /\ pitch_cache = <<>>
    /\ pitch_file = None
    /\ bpm = 0
    /\ gap = 0
    /\ pitchs = <<>>
    /\ lyrics = <<>>
    /\ lyrics_text = <<>>
    /\ i = 0
    /\ new_lyrics = <<>>
    /\ current_phrase_end = None
    /\ phrase_word_count = 0
    /\ runs = 0
    /\ origin = <<>>
    /\ error = ""
    /\ language = <<>>
    /\ info = DefaultInfo
    /\ login = Some(<<"c", "l", "e", "m">>)
    /\ ultrastar_header = <<>>
    /\ files = {}
    /\ ultrastar_file = None

\* an exception of process_song leaves the loop and main; a loop that caught
\* it would go on with the next song
LoopRunsAfterFailure == pc \in {"main_loop", "failed"}

LoopRuns == pc = "main_loop"

\* src/main.py lines 28-50 and src/ultrastar.py lines 233-260: the next song
\* of the list, skipped when it lacks artist, title or mp3, else handed to
\* process_song, which constructs its Song and transcribes it
MainNext ==
    /\ LoopRuns
    /\ song_at < Len(songs_list)
    /\ song_at' = song_at + 1
    /\ LET song == songs_list[song_at + 1]
       IN  IF ~song.named \/ ~song.isfile
           THEN UNCHANGED <<pc, words, detected_bpm, pitch_cache, pitch_file, bpm, gap,
                            pitchs, lyrics, lyrics_text, i, new_lyrics,
                            current_phrase_end, phrase_word_count, runs, origin, error,
                            language, info, ultrastar_header, files, ultrastar_file>>
           ELSE /\ pc' = "transcribed"
                /\ words' = song.words
                /\ detected_bpm' = song.detected_bpm
                /\ pitch_cache' = song.pitch_cache
                /\ pitch_file' = None
                /\ language' = IF song.language # <<>> THEN song.language
                                                       ELSE song.detected_language
                /\ info' = [DefaultInfo EXCEPT !.title = str(song_at + 1)]
                /\ bpm' = 0
                /\ gap' = 0
                /\ pitchs' = <<>>
                /\ lyrics' = <<>>
                /\ lyrics_text' = <<>>
                /\ i' = 0
                /\ new_lyrics' = <<>>
                /\ current_phrase_end' = None
                /\ phrase_word_count' = 0
                /\ runs' = 0
                /\ origin' = <<>>
                /\ error' = ""
                /\ ultrastar_header' = <<>>
                /\ files' = {}
                /\ ultrastar_file' = None
    /\ UNCHANGED <<login, songs_list, removed, results>>

\* src/main.py lines 50-55: process_song has returned
MainSongDone ==
    /\ pc = "done"
    /\ song_at > 0
    /\ removed' = removed \cup {song_at}
    /\ results' = Append(results,
                         [song |-> song_at, words |-> words, pitchs |-> pitchs,
                          gap |-> gap, bpm |-> bpm,
                          draws |-> songs_list[song_at].draws,
                          lyrics |-> lyrics, text |-> lyrics_text])
    /\ pc' = "main_loop"
    /\ UNCHANGED <<tags, output, songs_list, song_at>>
    /\ UNCHANGED <<words, detected_bpm, pitch_cache, pitch_file,
                   lyrics_text, bpm, gap, pitchs, lyrics, i, new_lyrics,
                   current_phrase_end, phrase_word_count, runs, origin, error>>

\* random.random() returns what the entry of the song holds for the word,
\* not any number
AnyDraw == Draws

GivenDraw == {songs_list[song_at].draws[i]}

WordsToLyricsStepOfBatch == WordsToLyricsStepDrawing(GivenDraw)

NextBatch ==
    \/ MainNext
    \/ CheckWords
    \/ _create_files
    \/ _update_with_music_info
    \/ process_pitch
    \/ WordsToLyricsBegin
    \/ WordsToLyricsStepOfBatch
    \/ WordsToLyricsReturn
    \/ EndOfPhraseBegin
    \/ EndOfPhraseStep
    \/ EndOfPhraseReturn
    \/ _update_short_lyrics
    \/ LyricsToText
    \/ _create_ultrastar_file
    \/ make_archive
    \/ MainSongDone

SpecBatch == InitBatch /\ [][NextBatch]_vars

(***************************************************************************)
(* _end_of_phrase alone, on any list of up to MaxPhraseLyrics entries in   *)
(* time order of which up to MaxPhraseIrregular are not the regular note:  *)
(* a note after a silence, a freestyle note or a marker right after the    *)
(* note before, a freestyle note or a marker long after it.                *)
(***************************************************************************)
MaxPhraseLyrics == 9
MaxPhraseIrregular == 2

\* beats from one start to the next, type and length
RegularNote == [delta |-> 3, note_type |-> ":", length |-> 2]

IrregularEntries ==
    { [delta |-> 9, note_type |-> "*", length |-> 2],
      [delta |-> 3, note_type |-> "F", length |-> 2],
      [delta |-> 9, note_type |-> "F", length |-> 2],
      [delta |-> 2, note_type |-> "-", length |-> 0],
      [delta |-> 9, note_type |-> "-", length |-> 0] }

LyricsOf(shapes) ==
    [k \in 1..Len(shapes) |->
        Lyric(shapes[k].note_type, StartOf(shapes, k), shapes[k].length, 0,
              IF shapes[k].note_type = "-" THEN <<>> ELSE <<"l", "a">>)]

\* where up to m of n entries may stand
Places(n, m) == { Q \in SUBSET (1..n) : Cardinality(Q) <= m }

\* the list of n entries that has the entries of f at their places
LyricsWith(n, f) ==
    LyricsOf([k \in 1..n |-> IF k \in DOMAIN f THEN f[k] ELSE RegularNote])

InitPhrase ==
    /\ pc = "end_of_phrase"
    /\ words = <<>>
    /\ detected_bpm = 125
    /\ pitch_cache = <<>>
    /\ pitch_file = None
    /\ bpm = _get_bpm(detected_bpm)
    /\ gap = 0
    /\ pitchs = <<>>
    /\ \E n \in 0..MaxPhraseLyrics : \E P \in Places(n, MaxPhraseIrregular) :
          \E f \in [P -> IrregularEntries] : lyrics = LyricsWith(n, f)
    /\ lyrics_text = <<>>
    /\ i = 0
    /\ new_lyrics = <<>>
    /\ current_phrase_end = None
    /\ phrase_word_count = 0
    /\ runs = 0
    /\ origin = <<>>
    /\ error = ""
    /\ SingleSong

NextPhrase ==
    \/ EndOfPhraseBegin
    \/ EndOfPhraseStep
    \/ EndOfPhraseReturn

SpecPhrase == InitPhrase /\ [][NextPhrase]_vars

(***************************************************************************)
(* _end_of_phrase alone, on streams of up to MaxGapLyrics sung notes of    *)
(* which up to MaxGapIrregular are not the regular note: a note 4, 5, 6 or *)
(* 10 beats after the end of a regular note before it, or a note that      *)
(* outlasts the start of the next.                                         *)
(***************************************************************************)
MaxGapLyrics == 9
MaxGapIrregular == 2

IrregularNotes ==
    { [delta |-> 6, note_type |-> ":", length |-> 2],
      [delta |-> 7, note_type |-> "*", length |-> 2],
      [delta |-> 8, note_type |-> ":", length |-> 2],
      [delta |-> 12, note_type |-> ":", length |-> 2],
      [delta |-> 3, note_type |-> ":", length |-> 8] }

InitGap ==
    /\ pc = "end_of_phrase"
    /\ words = <<>>
    /\ detected_bpm = 125
    /\ pitch_cache = <<>>
    /\ pitch_file = None
    /\ bpm = _get_bpm(detected_bpm)
    /\ gap = 0
    /\ pitchs = <<>>
    /\ \E n \in 1..MaxGapLyrics : \E P \in Places(n, MaxGapIrregular) :
          \E f \in [P -> IrregularNotes] : lyrics = LyricsWith(n, f)
    /\ lyrics_text = <<>>
    /\ i = 0
    /\ new_lyrics = <<>>
    /\ current_phrase_end = None
    /\ phrase_word_count = 0
    /\ runs = 0
    /\ origin = <<>>
    /\ error = ""
    /\ SingleSong

SpecGap == InitGap /\ [][NextPhrase]_vars

(***************************************************************************)
(* The quantizer alone: _words_to_lyrics on two words under any gap and    *)
(* any display bpm, as a caller of _word_to_lyric may hand them over.      *)
(***************************************************************************)
QTimes == {455, 485, 500, 515, 545, 1000, 1400, 1500, 1800}

QWords == { w \in { [start |-> s, end |-> e, text |-> <<"l", "a">>] :
                         s \in QTimes, e \in QTimes } : w.start <= w.end }

QGaps == {500, 1000}

QDetectedBpms == {0, 120, 125}

InitQ ==
    /\ pc = "words_loop"
    /\ words \in { <<a, b>> : a \in QWords, b \in QWords }
    /\ detected_bpm \in QDetectedBpms
    /\ pitch_cache = <<>>
    /\ pitch_file = None
    /\ bpm = _get_bpm(detected_bpm)
    /\ gap \in QGaps
    /\ pitchs = <<>>
    /\ lyrics = <<>>
    /\ lyrics_text = <<>>
    /\ i = 1
    /\ new_lyrics = <<>>
    /\ current_phrase_end = None
    /\ phrase_word_count = 0
    /\ runs = 0
    /\ origin = <<>>
    /\ error = ""
    /\ SingleSong

NextQ ==
    \/ WordsToLyricsStep
    \/ WordsToLyricsReturn

SpecQ == InitQ /\ [][NextQ]_vars

(***************************************************************************)
(* The classifier alone: _words_to_lyrics on up to MaxNotes evenly spaced  *)
(* words.                                                                  *)
(***************************************************************************)
MaxNotes == 21

InitCls ==
    /\ pc = "words_loop"
    /\ words \in { WordsOf([k \in 1..n |-> Regular]) : n \in 1..MaxNotes }
    /\ detected_bpm = 125
    /\ pitch_cache = <<>>
    /\ pitch_file = None
    /\ bpm = _get_bpm(detected_bpm)
    /\ gap = _get_gap(words)
    /\ pitchs = <<>>
    /\ lyrics = <<>>
    /\ lyrics_text = <<>>
    /\ i = 1
    /\ new_lyrics = <<>>
    /\ current_phrase_end = None
    /\ phrase_word_count = 0
    /\ runs = 0
    /\ origin = <<>>
    /\ error = ""
    /\ SingleSong

NextCls ==
    \/ WordsToLyricsStep
    \/ WordsToLyricsReturn

SpecCls == InitCls /\ [][NextCls]_vars

(***************************************************************************)
(* The classifier on a song of LongSong words, the shortest that leaves    *)
(* a fourth golden note wanted after three in a row (0.10 * 31 = 3.1).     *)
(***************************************************************************)
LongSong == 31

InitLong ==
    /\ pc = "words_loop"
    /\ words = WordsOf([k \in 1..LongSong |-> Regular])
    /\ detected_bpm = 125
    /\ pitch_cache = <<>>
    /\ pitch_file = None
    /\ bpm = _get_bpm(detected_bpm)
    /\ gap = _get_gap(words)
    /\ pitchs = <<>>
    /\ lyrics = <<>>
    /\ lyrics_text = <<>>
    /\ i = 1
    /\ new_lyrics = <<>>
    /\ current_phrase_end = None
    /\ phrase_word_count = 0
    /\ runs = 0
    /\ origin = <<>>
    /\ error = ""
    /\ SingleSong

NextLong ==
    \/ WordsToLyricsStep
    \/ WordsToLyricsReturn

SpecLong == InitLong /\ [][NextLong]_vars

(***************************************************************************)
(* The classifier on songs of up to MaxSong words.  Songs of up to         *)
(* MaxNotes words are followed under every draw; the longer ones under the *)
(* draws that come out high, where a golden note is returned only when     *)
(* needed_golden / remaining_notes has reached 1.                          *)
(***************************************************************************)
MaxSong == 46

UnluckyDraws == {DRAW_DEN - 1}

DrawsOfSong == IF Len(words) <= MaxNotes THEN Draws ELSE UnluckyDraws

WordsToLyricsStepOfSong == WordsToLyricsStepDrawing(DrawsOfSong)

InitSong ==
    /\ pc = "words_loop"
    /\ words \in { WordsOf([k \in 1..n |-> Regular]) : n \in 1..MaxSong }
    /\ detected_bpm = 125
    /\ pitch_cache = <<>>
    /\ pitch_file = None
    /\ bpm = _get_bpm(detected_bpm)
    /\ gap = _get_gap(words)
    /\ pitchs = <<>>
    /\ lyrics = <<>>
    /\ lyrics_text = <<>>
    /\ i = 1
    /\ new_lyrics = <<>>
    /\ current_phrase_end = None
    /\ phrase_word_count = 0
    /\ runs = 0
    /\ origin = <<>>
    /\ error = ""
    /\ SingleSong

NextSong ==
    \/ WordsToLyricsStepOfSong
    \/ WordsToLyricsReturn

SpecSong == InitSong /\ [][NextSong]_vars

(***************************************************************************)
(* Pitch resolution: process_pitch and _words_to_lyrics on up to           *)
(* MaxPitchWords words in time order, which may overlap, have no duration, *)
(* or start in second 2, past a pitch cache of two seconds; the cache may  *)
(* also be empty, and pitch_<id>.json may be there already.  The           *)
(* frequencies convert to 0, -60 (from -90), 4 (from 4.5), 5 and 67 (from  *)
(* 80).                                                                    *)
(***************************************************************************)
MaxPitchWords == 2

PitchWords ==
    { w \in { [start |-> s, end |-> e, text |-> <<"l", "a">>] :
                 s \in {900, 1100, 2100}, e \in {900, 1100, 1200, 2200} } :
        w.start <= w.end }

PitchWordLists ==
    UNION { { ws \in [1..n -> PitchWords] :
                \A k \in 1..(n - 1) : ws[k].start <= ws[k + 1].start } :
            n \in 1..MaxPitchWords }

Frequencies == {None, Some(-9000), Some(450), Some(500), Some(8000)}

PitchCachesOfTwoSeconds == [0..1 -> Frequencies] \cup {<<>>}

\* pitches read from a pitch_<id>.json that is already there
CachedPitches == {5, 80}

PitchFilesOf(ws) ==
    {None, Some(<<>>)}
        \cup { Some([k \in 1..Len(ws) |->
                        [start |-> ws[k].start, end |-> ws[k].end, pitch |-> p]]) :
                 p \in CachedPitches }

InitPitch ==
    /\ pc = "process_pitch"
    /\ words \in PitchWordLists
    /\ detected_bpm = 125
    /\ pitch_cache \in PitchCachesOfTwoSeconds
    /\ pitch_file \in PitchFilesOf(words)
    /\ bpm = _get_bpm(detected_bpm)
    /\ gap = _get_gap(words)
    /\ pitchs = <<>>
    /\ lyrics = <<>>
    /\ lyrics_text = <<>>
    /\ i = 0
    /\ new_lyrics = <<>>
    /\ current_phrase_end = None
    /\ phrase_word_count = 0
    /\ runs = 0
    /\ origin = <<>>
    /\ error = ""
    /\ SingleSong

NextPitch ==
    \/ process_pitch
    \/ WordsToLyricsBegin
    \/ WordsToLyricsStep
    \/ WordsToLyricsReturn

SpecPitch == InitPitch /\ [][NextPitch]_vars

(***************************************************************************)
(* _end_of_phrase called once more, on its own output.                     *)
(***************************************************************************)
EndOfPhraseAgain ==
    /\ runs = 1
    /\ EndOfPhraseCall("update_short_lyrics")

NextTwice ==
    \/ Next
    \/ EndOfPhraseAgain

SpecTwice == Init /\ [][NextTwice]_vars

(***************************************************************************)
(* _update_short_lyrics alone, on any list of up to MaxShortLyrics         *)
(* entries, notes shorter than one beat among them, and called once more   *)
(* on its own output.  new_lyrics keeps the list that was handed over.     *)
(***************************************************************************)
MaxShortLyrics == 3

ShortLyricEntries ==
    { Lyric(note_type, 4, length, 5, <<"l", "a">>) :
        note_type \in {":", "*"}, length \in {-1, 0, 1, 3} }
        \cup {Marker(4)}

ShortLyricLists == UNION { [1..n -> ShortLyricEntries] : n \in 0..MaxShortLyrics }

InitShort ==
    /\ pc = "update_short_lyrics"
    /\ words = <<>>
    /\ detected_bpm = 125
    /\ pitch_cache = <<>>
    /\ pitch_file = None
    /\ bpm = _get_bpm(detected_bpm)
    /\ gap = 0
    /\ pitchs = <<>>
    /\ lyrics \in ShortLyricLists
    /\ lyrics_text = <<>>
    /\ i = 0
    /\ new_lyrics = lyrics
    /\ current_phrase_end = None
    /\ phrase_word_count = 0
    /\ runs = 1
    /\ origin = <<>>
    /\ error = ""
    /\ SingleSong

UpdateShortLyricsAgain ==
    /\ pc = "lyrics_to_text"
    /\ lyrics' = [k \in 1..Len(lyrics) |-> ShortLyricFixed(lyrics[k])]
    /\ pc' = "updated_again"
    /\ UNCHANGED <<tags, output, batch>>
    /\ UNCHANGED <<words, detected_bpm, pitch_cache, pitch_file, lyrics_text, bpm,
                   gap, pitchs, i, new_lyrics, current_phrase_end, phrase_word_count,
                   runs, origin, error>>

NextShort ==
    \/ _update_short_lyrics
    \/ UpdateShortLyricsAgain

SpecShort == InitShort /\ [][NextShort]_vars

(***************************************************************************)
(* _lyrics_to_text alone, on any list of up to MaxTextLyrics entries:      *)
(* notes before GAP and far after it, of negative pitch, with no text left *)
(* by _remove_punctuation, with text that holds spaces or digits, and      *)
(* markers.                                                                *)
(***************************************************************************)
MaxTextLyrics == 3

TextLyricEntries ==
    { Lyric(":", 16, 13, 0, <<"h", "i">>),
      Lyric("*", -3, 1, -5, <<>>),
      Lyric(":", 0, 2, 67, <<"a", " ", "b">>),
      Lyric("*", 105, 10, -60, <<" ", "7">>),
      Lyric(":", 32, 10, 5, <<"E">>),
      Marker(-2),
      Marker(29) }

TextLyricLists == UNION { [1..n -> TextLyricEntries] : n \in 0..MaxTextLyrics }

InitText ==
    /\ pc = "lyrics_to_text"
    /\ words = <<>>
    /\ detected_bpm = 125
    /\ pitch_cache = <<>>
    /\ pitch_file = None
    /\ bpm = _get_bpm(detected_bpm)
    /\ gap = 0
    /\ pitchs = <<>>
    /\ lyrics \in TextLyricLists
    /\ lyrics_text = <<>>
    /\ i = 0
    /\ new_lyrics = lyrics
    /\ current_phrase_end = None
    /\ phrase_word_count = 0
    /\ runs = 1
    /\ origin = <<>>
    /\ error = ""
    /\ SingleSong

NextText == LyricsToText

SpecText == InitText /\ [][NextText]_vars

(***************************************************************************)
(* The passes that build and change the notes, each on what it may be      *)
(* handed: process_song on up to MaxFrameWords words, some of them nothing *)
(* but punctuation; _end_of_phrase on the lists of SpecPhrase;             *)
(* _update_short_lyrics on the lists of SpecShort.                         *)
(***************************************************************************)
MaxFrameWords == 3

FrameShapes ==
    {Regular, [delta |-> 60, dur |-> 30, text |-> <<"!">>],
     [delta |-> 330, dur |-> 30, text |-> <<".", ".", ".">>]} \cup Irregular

InitFrameWords ==
    /\ pc = "transcribed"
    /\ words \in { WordsOf(shapes) :
                      shapes \in UNION { [1..n -> FrameShapes] : n \in 1..MaxFrameWords } }
    /\ detected_bpm = 125
    /\ pitch_cache \in PitchCaches
    /\ pitch_file = None
    /\ bpm = 0
    /\ gap = 0
    /\ pitchs = <<>>
    /\ lyrics = <<>>
    /\ lyrics_text = <<>>
    /\ i = 0
    /\ new_lyrics = <<>>
    /\ current_phrase_end = None
    /\ phrase_word_count = 0
    /\ runs = 0
    /\ origin = <<>>
    /\ error = ""
    /\ SingleSong

InitFrame == InitFrameWords \/ InitPhrase \/ InitShort

SpecFrame == InitFrame /\ [][Next]_vars

(***************************************************************************)
(* Properties.                                                             *)
(***************************************************************************)

\* b is the integer nearest to num/den (den > 0), the even one of the two at a tie
IsNearestEven(b, num, den) ==
    /\ 2 * (num - b * den) <= den
    /\ 2 * (b * den - num) <= den
    /\ (2 * (num - b * den) = den \/ 2 * (b * den - num) = den) => b % 2 = 0

\* b is the beat of time t (ms): the integer nearest to (t - gap) / ms_per_beat,
\* ms_per_beat = 60000 / (bpm * 4)
IsBeatOf(b, t) == IsNearestEven(b, (t - gap) * (bpm * 4), 60000)

BeatRange == -30..60

QuantizedAsSpecified(k) ==
    /\ IsBeatOf(lyrics[k].start_beat, words[k].start)
    /\ \E end_beat \in BeatRange :
          /\ IsBeatOf(end_beat, words[k].end)
          /\ lyrics[k].length = IF end_beat - lyrics[k].start_beat >= 1
                                THEN end_beat - lyrics[k].start_beat ELSE 1

\* C1: with display_bpm > 0, the note of every word starts on
\* round((start_sec*1000 - gap_ms) / ms_per_beat) and lasts
\* max(end_beat - start_beat, 1) beats; with gap_ms = 500 and display_bpm = 480,
\* (1.00, 1.40) gives (16, 13) and (1.50, 1.80) gives (32, 10).
C1_QuantizerFormula ==
    bpm > 0 =>
        \A k \in 1..Len(lyrics) :
            /\ QuantizedAsSpecified(k)
            /\ (gap = 500 /\ bpm = 480 /\ words[k].start = 1000 /\ words[k].end = 1400)
                  => (lyrics[k].start_beat = 16 /\ lyrics[k].length = 13)
            /\ (gap = 500 /\ bpm = 480 /\ words[k].start = 1500 /\ words[k].end = 1800)
                  => (lyrics[k].start_beat = 32 /\ lyrics[k].length = 10)

\* the example of the specification quantized, and a tie rounded to the even beat
C1_Witness ==
    /\ gap = 500 /\ bpm = 480
    /\ Len(lyrics) = 2
    /\ words[1].start = 1000 /\ words[1].end = 1400
    /\ words[2].start = 1500 /\ words[2].end = 1800
    /\ lyrics[1].start_beat = 16 /\ lyrics[2].length = 10

\* C3: under one (gap_ms, display_bpm), a word that starts earlier does not get a
\* later start beat.
C3_QuantizationMonotone ==
    \A a \in 1..Len(lyrics) : \A b \in 1..Len(lyrics) :
        words[a].start < words[b].start
            => lyrics[a].start_beat <= lyrics[b].start_beat

\* two words a beat apart quantized to different beats, the first before GAP
C3_Witness ==
    /\ Len(lyrics) = 2
    /\ words[1].start < gap
    /\ words[1].start < words[2].start
    /\ lyrics[1].start_beat < lyrics[2].start_beat

\* C4: the quantizer never raises: no call of _calculate_start_and_length made by
\* _words_to_lyrics ends in an exception, whatever bpm the detector returned.
C4_QuantizerNeverRaises == error # "ZeroDivisionError"

\* C2: after _words_to_lyrics, _end_of_phrase and _update_short_lyrics every ':' or
\* '*' note lasts at least one beat and every '-' entry has length 0 and no text.
C2_MinimumLength ==
    pc = "lyrics_to_text" =>
        \A k \in 1..Len(lyrics) :
            /\ IsSung(lyrics[k]) => lyrics[k].length >= 1
            /\ lyrics[k].note_type = "-"
                  => (lyrics[k].length = 0 /\ lyrics[k].text = <<>>)

\* a normalised sequence holding markers of both triggers between notes
C2_Witness ==
    /\ pc = "lyrics_to_text"
    /\ \E k \in 1..Len(lyrics) : lyrics[k].note_type = "-" /\ origin[k] = "A"
    /\ \E k \in 1..Len(lyrics) : lyrics[k].note_type = "-" /\ origin[k] = "B"
    /\ \E k \in 1..Len(lyrics) : lyrics[k].note_type = "*"

\* number of sung notes that end at out[k] without an entry of another type between
RECURSIVE SungRun(_, _)
SungRun(out, k) ==
    IF k = 0 \/ ~IsSung(out[k]) THEN 0 ELSE 1 + SungRun(out, k - 1)

\* latest end (start_beat + length) among the sung notes of the run ending at out[k]
RunEnd(out, k) ==
    LET ends == { out[j].start_beat + out[j].length :
                     j \in (k - SungRun(out, k) + 1)..k }
    IN  CHOOSE m \in ends : \A e \in ends : m >= e

\* C5: once MAX_WORDS_PER_PHRASE sung notes were appended since the last marker (or
\* the start), a '-' marker follows the note at once, at the latest end of the notes
\* of that phrase, and current_phrase_end and phrase_word_count are reset; no phrase
\* grows beyond MAX_WORDS_PER_PHRASE notes and no other note gets such a marker.
C5_WordCountTrigger ==
    /\ \A k \in 1..Len(new_lyrics) :
          /\ SungRun(new_lyrics, k) <= MAX_WORDS_PER_PHRASE
          /\ SungRun(new_lyrics, k) = MAX_WORDS_PER_PHRASE
                => /\ k < Len(new_lyrics)
                   /\ new_lyrics[k + 1].note_type = "-"
                   /\ origin[k + 1] = "A"
                   /\ new_lyrics[k + 1].start_beat = RunEnd(new_lyrics, k)
          /\ origin[k] = "A"
                => (k > 1 /\ SungRun(new_lyrics, k - 1) = MAX_WORDS_PER_PHRASE)
    /\ (Len(new_lyrics) > 0 /\ origin[Len(new_lyrics)] = "A")
          => (current_phrase_end = None /\ phrase_word_count = 0)

\* the marker of a full phrase was just appended, later than the end of its last note
C5_Witness ==
    /\ pc = "phrase_loop"
    /\ Len(new_lyrics) = MAX_WORDS_PER_PHRASE + 1
    /\ origin[Len(new_lyrics)] = "A"
    /\ new_lyrics[Len(new_lyrics)].start_beat
          > new_lyrics[MAX_WORDS_PER_PHRASE].start_beat
              + new_lyrics[MAX_WORDS_PER_PHRASE].length
    /\ current_phrase_end = None

\* the sung note that follows the entry new_lyrics[k]: appended already, or the next
\* line of the input
FollowingLine(k) ==
    IF k < Len(new_lyrics) THEN new_lyrics[k + 1] ELSE lyrics[i]

\* C6: for a sung note that did not complete a phrase of MAX_WORDS_PER_PHRASE notes
\* and is followed by a sung note, with gap = next.start_beat - latest note end of
\* the phrase: a marker is inserted after it iff gap >= GAP_THRESHOLD, at the phrase
\* end + round(gap * FRACTION), and the phrase state is reset; the last note of the
\* sequence gets no gap marker.
C6_GapTrigger ==
    /\ \A k \in 1..(Len(new_lyrics) - 1) :
          (IsSung(new_lyrics[k]) /\ SungRun(new_lyrics, k) < MAX_WORDS_PER_PHRASE)
             => LET phrase_end == RunEnd(new_lyrics, k)
                IN  IF IsSung(new_lyrics[k + 1])
                    THEN new_lyrics[k + 1].start_beat - phrase_end < GAP_THRESHOLD
                    ELSE /\ origin[k + 1] = "B"
                         /\ new_lyrics[k + 1].note_type = "-"
                         /\ k + 1 = Len(new_lyrics)
                               => (pc = "phrase_loop" /\ i <= Len(lyrics))
                         /\ IsSung(FollowingLine(k + 1))
                         /\ FollowingLine(k + 1).start_beat - phrase_end
                               >= GAP_THRESHOLD
                         /\ IsNearestEven(
                               new_lyrics[k + 1].start_beat - phrase_end,
                               (FollowingLine(k + 1).start_beat - phrase_end)
                                   * FRACTION_NUM,
                               FRACTION_DEN)
    /\ \A k \in 1..Len(new_lyrics) :
          origin[k] = "B"
             => (k > 1 /\ IsSung(new_lyrics[k - 1])
                 /\ SungRun(new_lyrics, k - 1) < MAX_WORDS_PER_PHRASE)
    /\ (Len(new_lyrics) > 0 /\ origin[Len(new_lyrics)] = "B")
          => (current_phrase_end = None /\ phrase_word_count = 0)

\* a gap of 6 beats measured from a note that outlasts the note before the gap:
\* the marker sits round(1.5) = 2 beats after the phrase end
C6_Witness ==
    \E k \in 2..(Len(new_lyrics) - 2) :
        /\ IsSung(new_lyrics[k]) /\ IsSung(new_lyrics[k - 1])
        /\ SungRun(new_lyrics, k) >= 2
        /\ RunEnd(new_lyrics, k) > new_lyrics[k].start_beat + new_lyrics[k].length
        /\ origin[k + 1] = "B"
        /\ new_lyrics[k + 2].start_beat - RunEnd(new_lyrics, k) = 6
        /\ new_lyrics[k + 1].start_beat = RunEnd(new_lyrics, k) + 2

\* what one iteration of the loop appended to new_lyrics
Appended == SubSeq(origin', Len(origin) + 1, Len(origin'))

\* C7: one iteration of _end_of_phrase's loop appends the note and at most one
\* marker; when the word-count trigger fired, the gap trigger appends nothing.
C7_OneMarkerPerNote ==
    [][pc = "phrase_loop" /\ pc' = "phrase_loop"
          => /\ Len(new_lyrics') <= Len(new_lyrics) + 2
             /\ Cardinality({j \in 1..Len(Appended) : Appended[j] # "in"}) <= 1
             /\ (\E j \in 1..Len(Appended) : Appended[j] = "A")
                   => ~(\E j \in 1..Len(Appended) : Appended[j] = "B")]_vars

\* the word-count marker is followed by a note GAP_THRESHOLD or more beats after the
\* end of the phrase, and nothing else was inserted
C7_Witness ==
    \E k \in 2..(Len(new_lyrics) - 1) :
        /\ origin[k] = "A"
        /\ IsSung(new_lyrics[k + 1])
        /\ new_lyrics[k + 1].start_beat - new_lyrics[k].start_beat >= GAP_THRESHOLD

\* C8: _end_of_phrase on the notes of _words_to_lyrics never puts a '-' marker right
\* after another one.
C8_NoConsecutiveMarkers ==
    runs = 1 =>
        /\ \A k \in 1..(Len(new_lyrics) - 1) :
              ~(new_lyrics[k].note_type = "-" /\ new_lyrics[k + 1].note_type = "-")
        /\ \A k \in 1..(Len(lyrics) - 1) :
              ~(lyrics[k].note_type = "-" /\ lyrics[k + 1].note_type = "-")

\* the returned sequence holds two markers
C8_Witness ==
    /\ pc = "update_short_lyrics"
    /\ Cardinality({k \in 1..Len(lyrics) : lyrics[k].note_type = "-"}) >= 2

\* C9: a second run of _end_of_phrase, on the output of the first, inserts no marker
\* right before or right after a marker that was already there.
C9_SecondRunKeepsMarkersApart ==
    runs = 2 =>
        \A k \in 1..Len(new_lyrics) :
            origin[k] \in {"A", "B"}
               => /\ k > 1 => ~(new_lyrics[k - 1].note_type = "-"
                                /\ origin[k - 1] = "in")
                  /\ k < Len(new_lyrics) => ~(new_lyrics[k + 1].note_type = "-"
                                              /\ origin[k + 1] = "in")

\* ceil(0.10 * n)
CeilTenth(n) == (n + 9) \div 10

\* C10: none of the first ceil(0.10 * total_notes) notes is golden, whatever the
\* draws.
C10_NoGoldenInOpening ==
    \A k \in 1..Len(lyrics) :
        k <= CeilTenth(Len(words)) => lyrics[k].note_type = ":"

\* 21 words: the first three notes are normal and the fourth came out golden
C10_Witness ==
    /\ Len(words) = 21
    /\ Len(lyrics) >= 4
    /\ lyrics[4].note_type = "*"

\* C11: the notes built by _words_to_lyrics never hold four '*' in a row: after three
\* golden notes the next one is normal, whatever the draw and however many golden
\* notes are still wanted.
C11_NoFourGoldenInARow ==
    \A k \in 1..(Len(lyrics) - 3) :
        ~(\A j \in k..(k + 3) : lyrics[j].note_type = "*")

\* three golden notes in a row, a normal one, and the golden note that was still
\* wanted right after it
C11_Witness ==
    /\ Len(lyrics) >= 9
    /\ \A j \in 5..7 : lyrics[j].note_type = "*"
    /\ lyrics[8].note_type = ":"
    /\ lyrics[9].note_type = "*"

\* number of golden notes of a sequence
GoldenCount(seq) == Cardinality({k \in 1..Len(seq) : seq[k].note_type = "*"})

C13_LastWordNormal ==
    Len(lyrics) = Len(words) => lyrics[Len(words)].note_type = ":"

\* the three notes before position k of the sequence are golden
ThreeGoldenBefore(seq, k) ==
    k >= 4 /\ \A j \in (k - 3)..(k - 1) : seq[j].note_type = "*"

\* C13 amended: the last word is classified like the others, with one note
\* remaining: it is golden only past the opening, not after three golden notes and
\* with golden_count < 0.10 * total_notes, and then it is golden whenever
\* needed_golden >= 1, whatever the draw.
C13_LastWordClassified ==
    Len(lyrics) = Len(words) =>
        LET n == Len(words)
            golden_count == GoldenCount(SubSeq(lyrics, 1, n - 1))
            open == /\ 10 * (n - 1) >= n
                    /\ ~ThreeGoldenBefore(lyrics, n)
        IN  /\ lyrics[n].note_type = "*" => (open /\ 10 * golden_count < n)
            /\ (open /\ n - 10 * golden_count >= 10) => lyrics[n].note_type = "*"

\* ten words, none golden before the last: the last one is golden
C13_Witness ==
    /\ Len(words) = 10
    /\ Len(lyrics) = 10
    /\ GoldenCount(SubSeq(lyrics, 1, 9)) = 0
    /\ lyrics[10].note_type = "*"

StartSecond(word) == word.start \div 1000

\* song.pitchs is the mapping process_pitch builds for these words from the cache
TableBuiltFromCache == pitchs = _map_words_to_pitch(words, pitch_cache)

\* C15: with the table built from the pitch cache, the note of every word whose
\* start second is in the cache carries the pitch of that second, also when the
\* word starts and ends at the same time.
C15_PitchOfStartSecond ==
    TableBuiltFromCache =>
        \A k \in 1..Len(lyrics) :
            StartSecond(words[k]) \in DOMAIN pitch_cache
                => lyrics[k].pitch =
                      _convert_frequency_to_ultrastar(pitch_cache[StartSecond(words[k])])

\* an entry of song.pitchs holds the time t in its [start, end)
Covered(t) == \E j \in 1..Len(pitchs) : pitchs[j].start <= t /\ t < pitchs[j].end

C17_PitchInRange ==
    \A k \in 1..Len(lyrics) :
        IsSung(lyrics[k]) => (-60 <= lyrics[k].pitch /\ lyrics[k].pitch <= 67)

\* C18: _update_short_lyrics gives length 1 to every ':' or '*' note shorter than
\* one beat and changes nothing else of it, returns every other note and every '-'
\* entry as it was, in the same order, and called on its own output returns it
\* unchanged.
C18_ShortLyricsNormalised ==
    pc \in {"lyrics_to_text", "updated_again"} =>
        /\ Len(lyrics) = Len(new_lyrics)
        /\ \A k \in 1..Len(lyrics) :
              IF IsSung(new_lyrics[k]) /\ new_lyrics[k].length < 1
              THEN lyrics[k] = [new_lyrics[k] EXCEPT !.length = 1]
              ELSE lyrics[k] = new_lyrics[k]

\* after the second call: a note of length 0 lasts one beat, a note of three beats
\* and a marker are as they were
C18_Witness ==
    /\ pc = "updated_again"
    /\ Len(lyrics) = 3
    /\ new_lyrics[1].note_type = "*" /\ new_lyrics[1].length = 0
    /\ lyrics[1].length = 1
    /\ lyrics[2] = Marker(4)
    /\ lyrics[3].note_type = ":" /\ lyrics[3].length = 3

\* index of the first char at or after position from in seq, Len(seq) + 1 if none
FirstIndex(seq, char, from) ==
    LET at == {j \in from..Len(seq) : seq[j] = char}
    IN  IF at = {} THEN Len(seq) + 1 ELSE CHOOSE j \in at : \A m \in at : j <= m

\* the lines of a text, without the "\n" that ends each
RECURSIVE SplitLines(_)
SplitLines(text) ==
    IF text = <<>> THEN <<>>
    ELSE LET n == FirstIndex(text, "\n", 1)
         IN  <<SubSeq(text, 1, n - 1)>> \o SplitLines(SubSeq(text, n + 1, Len(text)))

IsDigit(char) == char \in {"0", "1", "2", "3", "4", "5", "6", "7", "8", "9"}

DigitValue(char) ==
    IF IsDigit(char)
    THEN CHOOSE d \in 0..9 :
            <<"0", "1", "2", "3", "4", "5", "6", "7", "8", "9">>[d + 1] = char
    ELSE 0

RECURSIVE NumeralValue(_)
NumeralValue(digits) ==
    IF digits = <<>> THEN 0
    ELSE 10 * NumeralValue(SubSeq(digits, 1, Len(digits) - 1))
            + DigitValue(digits[Len(digits)])

\* the integer a decimal numeral stands for
IntegerOf(chars) ==
    IF chars # <<>> /\ chars[1] = "-" THEN 0 - NumeralValue(Tail(chars))
    ELSE NumeralValue(chars)

\* chars is the decimal numeral of n: digits only, a leading '-' exactly when
\* n < 0, no leading zero
IsNumeralOf(chars, n) ==
    LET digits == IF chars # <<>> /\ chars[1] = "-" THEN Tail(chars) ELSE chars
    IN  /\ Len(digits) >= 1
        /\ \A j \in 1..Len(digits) : IsDigit(digits[j])
        /\ Len(digits) > 1 => digits[1] # "0"
        /\ (Len(digits) < Len(chars)) <=> (n < 0)
        /\ IntegerOf(chars) = n

\* line is '<kind> <start_beat> <length> <pitch>', two spaces and the text of a
\* sung note, or '- <start_beat>' of a marker
RendersEntry(line, lyric) ==
    /\ Len(line) >= 3
    /\ line[1] = lyric.note_type
    /\ line[2] = " "
    /\ IF lyric.note_type = "-"
       THEN IsNumeralOf(SubSeq(line, 3, Len(line)), lyric.start_beat)
       ELSE LET a == FirstIndex(line, " ", 3)
                b == FirstIndex(line, " ", a + 1)
                c == FirstIndex(line, " ", b + 1)
            IN  /\ IsNumeralOf(SubSeq(line, 3, a - 1), lyric.start_beat)
                /\ IsNumeralOf(SubSeq(line, a + 1, b - 1), lyric.length)
                /\ IsNumeralOf(SubSeq(line, b + 1, c - 1), lyric.pitch)
                /\ c + 1 <= Len(line)
                /\ line[c + 1] = " "
                /\ SubSeq(line, c + 2, Len(line)) = lyric.text

\* C19: the text of _lyrics_to_text holds one line per entry, in order, each ended
\* by a newline: a sung note as '<kind> <start_beat> <length> <pitch>', two spaces
\* and its text, a marker as '- <start_beat>' alone; then one last line 'E', also
\* after no entry at all or after a marker.
C19_TextRendersEveryEntry ==
    pc = "create_ultrastar_file" =>
        LET lines == SplitLines(lyrics_text)
        IN  /\ lyrics_text[Len(lyrics_text)] = "\n"
            /\ Len(lines) = Len(lyrics) + 1
            /\ lines[Len(lines)] = <<"E">>
            /\ \A k \in 1..Len(lyrics) :
                  /\ lines[k] # <<"E">>
                  /\ RendersEntry(lines[k], lyrics[k])

\* the note (16, 13, 0, "hi") and a marker at 29, written out
C19_Witness ==
    /\ pc = "create_ultrastar_file"
    /\ lyrics = <<Lyric(":", 16, 13, 0, <<"h", "i">>), Marker(29)>>
    /\ lyrics_text = <<":", " ", "1", "6", " ", "1", "3", " ", "0", " ", " ", "h", "i",
                       "\n", "-", " ", "2", "9", "\n", "E", "\n">>

\* one line read back by the grammar: the kind, the integers between single spaces,
\* and for a sung note whatever follows the two spaces as its text
ParseLine(line) ==
    IF line[1] = "-" THEN Marker(IntegerOf(SubSeq(line, 3, Len(line))))
    ELSE LET a == FirstIndex(line, " ", 3)
             b == FirstIndex(line, " ", a + 1)
             c == FirstIndex(line, " ", b + 1)
         IN  Lyric(line[1],
                   IntegerOf(SubSeq(line, 3, a - 1)),
                   IntegerOf(SubSeq(line, a + 1, b - 1)),
                   IntegerOf(SubSeq(line, b + 1, c - 1)),
                   SubSeq(line, c + 2, Len(line)))

\* the entries read back line by line, up to the line 'E'
ParseText(text) ==
    LET lines == SplitLines(text)
        last == FirstIndex(lines, <<"E">>, 1)
    IN  [k \in 1..(last - 1) |-> ParseLine(lines[k])]

\* C20: reading the text of _lyrics_to_text back line by line gives the entries it
\* was written from: kind, start_beat, length, pitch and text of every note, also
\* with an empty text, a text holding spaces, a negative start_beat or pitch.
C20_TextReadsBack ==
    pc = "create_ultrastar_file" => ParseText(lyrics_text) = lyrics

\* written and read back: a note before GAP with a negative pitch and no text, a
\* note whose text holds a space, a marker before GAP
C20_Witness ==
    /\ pc = "create_ultrastar_file"
    /\ lyrics = <<Lyric("*", -3, 1, -5, <<>>),
                  Lyric(":", 0, 2, 67, <<"a", " ", "b">>),
                  Marker(-2)>>
    /\ Len(SplitLines(lyrics_text)) = 4

(***************************************************************************)
(* Header, files and failures of process_song.                             *)
(***************************************************************************)
TagAt(tag) == { k \in 1..Len(ultrastar_header) : ultrastar_header[k].tag = tag }

MandatoryTags == {"#TITLE", "#ARTIST", "#BPM"}

OptionalTags == {"#GAP", "#CREATOR", "#ALBUM", "#GENRE", "#YEAR", "#DECADE", "#LANGUAGE"}

\* the value a tag is given from
ValueOf(tag) ==
    CASE tag = "#ALBUM" -> info.album
      [] tag = "#GENRE" -> info.genre
      [] tag = "#YEAR" -> info.year
      [] tag = "#DECADE" -> info.decade
      [] tag = "#LANGUAGE" -> language

\* _update_with_music_info has returned
HeaderBuilt ==
    /\ pc \notin {"transcribed", "create_files", "music_info"}
    /\ ~(pc = "failed" /\ error \in {"ValueError", "OSError"})

\* C21: in the header list built for a song, #TITLE, #ARTIST and #BPM each
\* precede every one of #GAP, #CREATOR, #ALBUM, #GENRE, #YEAR, #DECADE and
\* #LANGUAGE, and each of #ALBUM, #GENRE, #YEAR, #DECADE, #LANGUAGE is there
\* if and only if its value is available, never with an empty value.
C21_HeaderOrderAndPresence ==
    HeaderBuilt =>
        /\ \A m \in MandatoryTags : \A o \in OptionalTags :
              \A a \in TagAt(m) : \A b \in TagAt(o) : a < b
        /\ \A tag \in {"#ALBUM", "#GENRE", "#YEAR", "#DECADE", "#LANGUAGE"} :
              /\ TagAt(tag) # {} <=> ValueOf(tag) # <<>>
              /\ \A k \in TagAt(tag) : ultrastar_header[k].value # <<>>

C21_Witness ==
    /\ HeaderBuilt
    /\ \A tag \in MandatoryTags \cup {"#GAP", "#CREATOR"} : TagAt(tag) # {}
    /\ TagAt("#ALBUM") # {} /\ info.genre = <<>> /\ TagAt("#GENRE") = {}
    /\ TagAt("#LANGUAGE") # {} /\ info.decade = <<>>

Vocabulary == { entry.key : entry \in list_of_languages }

NameOf(code) == (CHOOSE entry \in list_of_languages : entry.key = code).value

\* C22: a language of the vocabulary en, fr, es, de, it, in either case, gives
\* the #LANGUAGE tag of its name; any other non-empty language makes
\* process_song fail with the error of header generation, no #LANGUAGE tag is
\* added and the UltraStar text file is never written.
C22_UnknownLanguageFails ==
    /\ /\ lower(language) \in Vocabulary
       /\ words # <<>> /\ login # None
       /\ pc \notin {"transcribed", "create_files", "music_info"}
       => \E k \in 1..Len(ultrastar_header) :
              ultrastar_header[k] = Header("#LANGUAGE", NameOf(lower(language)))
    /\ language # <<>> /\ lower(language) \notin Vocabulary =>
          /\ pc \in {"transcribed", "create_files", "music_info", "failed"}
          /\ pc = "failed" /\ words # <<>> /\ login # None => error = "ValueError"
          /\ TagAt("#LANGUAGE") = {}
          /\ "TXT" \notin files
          /\ ultrastar_file = None

C22_Witness ==
    /\ language = <<"j", "a">>
    /\ words # <<>>
    /\ pc = "failed" /\ error = "ValueError"
    /\ TagAt("#CREATOR") # {}
    /\ "MP3" \in files

\* C23: when transcription yields no words, process_song raises before any
\* note is created, before any header line is added and before any file of
\* the song is written.
C23_NoWordsNoOutput ==
    words = <<>> =>
        /\ pc \in {"transcribed", "failed"}
        /\ pc = "failed" => error = "ValueError"
        /\ lyrics = <<>>
        /\ ultrastar_header = <<>>
        /\ files = {}
        /\ ultrastar_file = None

C23_Witness ==
    /\ words = <<>>
    /\ pc = "failed"
    /\ error = "ValueError"
    /\ song_at = 0

SameInput(a, b) ==
    /\ a.words = b.words
    /\ a.pitchs = b.pitchs
    /\ a.gap = b.gap
    /\ a.bpm = b.bpm
    /\ a.draws = b.draws

Processed == { results[k].song : k \in 1..Len(results) }

\* C30: a failed process_song runs no further step of its song (no UltraStar
\* file, no zip) and carries its error; in batch mode nothing follows it:
\* no later song of the list is begun, and an mp3 is removed only once
\* process_song has returned for its song.
C30_FailureIsTerminal ==
    /\ [](pc = "failed" =>
            /\ error # ""
            /\ "TXT" \notin files /\ "ZIP" \notin files /\ ultrastar_file = None
            /\ song_at \notin removed)
    /\ [](removed \subseteq Processed)
    /\ [][pc = "failed" => UNCHANGED vars]_vars

C30_Witness ==
    /\ pc = "failed"
    /\ Len(songs_list) = 3 /\ song_at = 2
    /\ songs_list[3].named /\ songs_list[3].isfile
    /\ removed = {1}
    /\ "MP3" \in files

\* the iteration of _end_of_phrase on lyrics[i] is about to run
AtEntry == pc = "phrase_loop" /\ i <= Len(lyrics)

\* index of the last entry before lyrics[k] that is not sung, 0 if none
LastNonSungBefore(k) ==
    LET before == { j \in 1..(k - 1) : ~IsSung(lyrics[j]) }
    IN  IF before = {} THEN 0 ELSE CHOOSE j \in before : \A h \in before : h <= j

\* the latest end of the notes lyrics[a..b]
LatestEnd(a, b) ==
    LET ends == { lyrics[k].start_beat + lyrics[k].length : k \in a..b }
    IN  CHOOSE e \in ends : \A other \in ends : other <= e

\* C25: an entry of the input of _end_of_phrase that is neither ':' nor '*'
\* is copied unchanged, inserts no marker and resets current_phrase_end and
\* phrase_word_count, so that both are computed only from the notes after
\* it; and a sung note directly followed by such an entry gets no marker of
\* the gap trigger.
C25_NonSungEntryResetsPhrase ==
    /\ [][AtEntry /\ ~IsSung(lyrics[i]) =>
            /\ new_lyrics' = Append(new_lyrics, lyrics[i])
            /\ current_phrase_end' = None
            /\ phrase_word_count' = 0]_vars
    /\ [][AtEntry /\ IsSung(lyrics[i]) /\ i < Len(lyrics) /\ ~IsSung(lyrics[i + 1]) =>
            /\ Len(origin') >= 1
            /\ origin'[Len(origin')] # "B"]_vars
    /\ [](pc = "phrase_loop" =>
            /\ phrase_word_count <= (i - 1) - LastNonSungBefore(i)
            /\ current_phrase_end # None =>
                  \E a \in (LastNonSungBefore(i) + 1)..(i - 1) :
                      current_phrase_end[1] = LatestEnd(a, i - 1))

\* a freestyle note comes long after six notes and is followed by two more:
\* none of the three triggers a marker
C25_Witness ==
    /\ pc = "phrase_loop" /\ i = 10 /\ Len(lyrics) = 9
    /\ lyrics[7].note_type = "F"
    /\ lyrics[7].start_beat - (lyrics[6].start_beat + lyrics[6].length) >= GAP_THRESHOLD
    /\ new_lyrics = lyrics
    /\ phrase_word_count = 2

\* the entries of new_lyrics that the loop copied from its input
CopiedEntries == { k \in 1..Len(new_lyrics) : origin[k] = "in" }

RECURSIVE Copied(_)
Copied(n) ==
    IF n = 0 THEN <<>>
    ELSE IF origin[n] = "in" THEN Append(Copied(n - 1), new_lyrics[n])
    ELSE Copied(n - 1)

\* C26: _words_to_lyrics makes exactly one sung note per word, in the order
\* of the words, also of a word that is nothing but punctuation;
\* _end_of_phrase only inserts '-' entries, its output without them being
\* its input field for field; _update_short_lyrics changes no field other
\* than length.
C26_NotesOnlyGainMarkersAndLength ==
    /\ [](pc = "words_loop" =>
            /\ Len(lyrics) = i - 1
            /\ \A k \in 1..Len(lyrics) :
                  /\ IsSung(lyrics[k])
                  /\ lyrics[k].text = _remove_punctuation(words[k].text)
                  /\ lyrics[k].start_beat = Beat(words[k].start, gap, bpm))
    /\ [](pc = "end_of_phrase" /\ words # <<>> => Len(lyrics) = Len(words))
    /\ [](pc = "phrase_loop" =>
            /\ Copied(Len(new_lyrics)) = SubSeq(lyrics, 1, i - 1)
            /\ \A k \in 1..Len(new_lyrics) :
                  k \notin CopiedEntries => new_lyrics[k] = Marker(new_lyrics[k].start_beat))
    /\ [][pc = "phrase_loop" /\ pc' = "update_short_lyrics" =>
            Copied(Len(new_lyrics)) = lyrics /\ lyrics' = new_lyrics]_vars
    /\ [][pc = "update_short_lyrics" /\ pc' = "lyrics_to_text" =>
            /\ Len(lyrics') = Len(lyrics)
            /\ \A k \in 1..Len(lyrics) :
                  [lyrics'[k] EXCEPT !.length = lyrics[k].length] = lyrics[k]]_vars

\* a word of punctuation only has become a note without text, a marker was
\* inserted, and the pass over the short notes is done
C26_Witness ==
    /\ pc = "lyrics_to_text"
    /\ Len(words) = 3
    /\ words[2].text = <<"!">>
    /\ Len(lyrics) = 4
    /\ lyrics[2].text = <<>> /\ IsSung(lyrics[2])
    /\ lyrics[3].note_type = "-"

\* index of the last sung note of out, 0 if there is none
LastSung(out) ==
    LET sung == { k \in 1..Len(out) : IsSung(out[k]) }
    IN  IF sung = {} THEN 0 ELSE CHOOSE k \in sung : \A j \in sung : j <= k

\* C27: in what _end_of_phrase returns for a stream of sung notes, every
\* maximal run of sung notes holds at least 1 and at most
\* MAX_WORDS_PER_PHRASE notes; the first entry is no marker; the last entry
\* is a marker exactly when the last note completed a phrase of
\* MAX_WORDS_PER_PHRASE notes.
C27_PhraseSizes ==
    (pc = "update_short_lyrics" /\ runs = 1) =>
        /\ \A k \in 1..Len(lyrics) : SungRun(lyrics, k) <= MAX_WORDS_PER_PHRASE
        /\ \A k \in 1..(Len(lyrics) - 1) :
              ~(lyrics[k].note_type = "-" /\ lyrics[k + 1].note_type = "-")
        /\ lyrics # <<>>
        /\ lyrics[1].note_type # "-"
        /\ lyrics[Len(lyrics)].note_type = "-"
              <=> SungRun(lyrics, LastSung(lyrics)) = MAX_WORDS_PER_PHRASE

\* seven notes and the marker of their phrase at the end
C27_Witness ==
    /\ pc = "update_short_lyrics" /\ runs = 1
    /\ Len(lyrics) = MAX_WORDS_PER_PHRASE + 1
    /\ lyrics[Len(lyrics)].note_type = "-"
    /\ SungRun(lyrics, MAX_WORDS_PER_PHRASE) = MAX_WORDS_PER_PHRASE

\* C28: a marker of the gap trigger lies strictly between the end of the
\* phrase before it and the start of the note after it, a gap of 6 or of 10
\* beats giving an offset of 2; a marker of the word-count trigger sits at
\* the end of its phrase, which may be later than the start of the next
\* note.
C28_GapMarkerInsideGap ==
    \A k \in 2..Len(new_lyrics) :
        /\ (origin[k] = "B" /\ k < Len(new_lyrics)) =>
              LET phrase_end == RunEnd(new_lyrics, k - 1)
                  next_start == new_lyrics[k + 1].start_beat
                  marker_start == new_lyrics[k].start_beat
              IN  /\ phrase_end < marker_start
                  /\ marker_start < next_start
                  /\ next_start - phrase_end \in {6, 10} => marker_start = phrase_end + 2
        /\ origin[k] = "A" => new_lyrics[k].start_beat = RunEnd(new_lyrics, k - 1)

\* a marker 2 beats into a gap of 10, and the marker of a full phrase that
\* is later than the start of the note after it
C28_Witness ==
    /\ \E k \in 2..(Len(new_lyrics) - 1) :
          /\ origin[k] = "B"
          /\ new_lyrics[k + 1].start_beat - RunEnd(new_lyrics, k - 1) = 10
          /\ new_lyrics[k].start_beat = RunEnd(new_lyrics, k - 1) + 2
    /\ \E k \in 2..(Len(new_lyrics) - 1) :
          /\ origin[k] = "A"
          /\ new_lyrics[k].start_beat > new_lyrics[k + 1].start_beat

\* C29: in process_song, GAP being the start of the first word and the
\* words in time order, the first note has start_beat 0 and no note or
\* marker has a negative start_beat.
C29_StartBeatsNonNegative ==
    /\ \A k \in 1..Len(lyrics) : lyrics[k].start_beat >= 0
    /\ \A k \in 1..Len(new_lyrics) : new_lyrics[k].start_beat >= 0
    /\ lyrics # <<>> => (IsSung(lyrics[1]) /\ lyrics[1].start_beat = 0)

C29_Witness ==
    /\ pc = "done"
    /\ gap > 0
    /\ Len(words) >= 2
    /\ \E k \in 1..Len(lyrics) : lyrics[k].note_type = "-"
    /\ lyrics[Len(lyrics)].start_beat > 0
====
